---- MODULE Spec2Model ----
(***************************************************************************)
(* A model of monitor_weekly.py: the paginated Scopus fetch                *)
(* (scopus_search_all), the notification state file (load_state /          *)
(* save_state), the Gemini summaries, the e-mail renderer                  *)
(* (build_email_html) and the orchestration of one report run (main).      *)
(***************************************************************************)
EXTENDS Integers, Sequences, FiniteSets, TLC

(***************************************************************************)
(* Bounds of the model and constants of the program.                       *)
(***************************************************************************)
\* identifiers the upstream knows: 1..NumEids
NumEids == 3
\* longest page the upstream returns in the paging specifications
MaxPageLen == 2
\* largest opensearch:totalResults a response advertises
MaxTotal == 3
\* longest result list the upstream holds in a report run
MaxHeld == 3
\* longest of the short record lists given to the renderer
MaxRenderLen == 3
\* the long record lists given to the renderer have up to RenderCap + MaxOver records
MaxOver == 2
\* report runs started in a behaviour without overlapping runs
MaxRuns == 3
\* report runs started in a behaviour with overlapping runs
MaxOverlapRuns == 2
\* longest result list the upstream holds in a run that may overlap another
MaxOverlapHeld == 1

\* count, the page size of a request (monitor_weekly.py line 67)
count == 25
\* the e-mail lists entries_30d[:40] (monitor_weekly.py line 366)
RenderCap == 40
\* r.status_code of a successful request (line 80)
StatusOK == 200
\* a status_code other than 200
StatusError == 500

\* e.get("eid") of an entry without an identifier (None or ""), line 104
NoEid == 0
\* total = None before the first response, line 69
NoTotal == -1

Eids == 1..NumEids

Min(a, b) == IF a < b THEN a ELSE b

(***************************************************************************)
(* Entries.  An entry of the search result is a record of its eid and its  *)
(* prism:coverDate.  A cover date is a parsable date (a day number), a     *)
(* string pandas cannot parse, or missing (the key is absent: None).       *)
(***************************************************************************)
ValidDate(d) == [kind |-> "valid", day |-> d]
Unparsable == [kind |-> "unparsable", day |-> 0]
Missing == [kind |-> "missing", day |-> 0]

\* The cover date the upstream holds for each publication.
CoverDateOf(e) ==
  IF e = NoEid THEN Missing
  ELSE CASE e % 4 = 1 -> ValidDate(2)
         [] e % 4 = 2 -> Unparsable
         [] e % 4 = 3 -> ValidDate(1)
         [] OTHER -> Missing

Entry(e) == [eid |-> e, coverDate |-> CoverDateOf(e)]

Entries == {Entry(e) : e \in {NoEid} \cup Eids}

RECURSIVE SeqsUpTo(_, _)
\* every sequence over S of length at most n
SeqsUpTo(S, n) ==
  IF n = 0 THEN {<<>>}
  ELSE LET shorter == SeqsUpTo(S, n - 1)
       IN  shorter \cup {Append(s, x) : s \in {t \in shorter : Len(t) = n - 1}, x \in S}

EidsOf(es) == {es[i].eid : i \in 1..Len(es)} \ {NoEid}

NoDuplicateEid(es) ==
  \A i, j \in 1..Len(es) : i # j => es[i].eid # es[j].eid

(***************************************************************************)
(* scopus_search_all, lines 66-110.                                        *)
(***************************************************************************)
\* A response of the Search API: r.status_code, and in r.json() the
\* opensearch:totalResults and the entry list.
Response(st, tot, es) == [status |-> st, total |-> tot, entries |-> es]

ErrorResponse == Response(StatusError, 0, <<>>)

Responses ==
  {Response(StatusOK, t, es) : t \in 0..MaxTotal, es \in SeqsUpTo(Entries, MaxPageLen)}
    \cup {ErrorResponse}

\* The state of the loop before the first request (lines 67-69).
LoopInit == [start |-> 0, rows |-> <<>>, total |-> NoTotal, at |-> "request"]

\* One turn of the while loop, lines 72-98, on the response r of the request:
\* the loop goes on (at = "request"), breaks (at = "dedup") or raises.
PageBodyNoBreakOnEmpty(l, r) ==
  IF r.status # StatusOK THEN [l EXCEPT !.at = "raised"]
  ELSE LET total == IF l.total = NoTotal THEN r.total ELSE l.total
           rows == l.rows \o r.entries
       IN  [start |-> l.start + count, rows |-> rows, total |-> total,
            at |-> IF Len(rows) >= total THEN "dedup" ELSE "request"]

PageBodyPartialOnError(l, r) ==
  IF r.status # StatusOK THEN [l EXCEPT !.at = "dedup"]
  ELSE LET total == IF l.total = NoTotal THEN r.total ELSE l.total
       IN  IF r.entries = <<>>
             THEN [l EXCEPT !.total = total, !.at = "dedup"]
             ELSE LET rows == l.rows \o r.entries
                  IN  [start |-> l.start + count, rows |-> rows, total |-> total,
                       at |-> IF Len(rows) >= total THEN "dedup" ELSE "request"]

PageBody(l, r) ==
  IF r.status # StatusOK THEN [l EXCEPT !.at = "raised"]
  ELSE LET total == IF l.total = NoTotal THEN r.total ELSE l.total
       IN  IF r.entries = <<>>
             THEN [l EXCEPT !.total = total, !.at = "dedup"]
             ELSE LET rows == l.rows \o r.entries
                  IN  [start |-> l.start + count, rows |-> rows, total |-> total,
                       at |-> IF Len(rows) >= total THEN "dedup" ELSE "request"]

RECURSIVE DedupFrom(_, _, _)
\* The loop of lines 103-108 from row i on, with the seen set and out so far.
DedupFrom(rows, i, acc) ==
  IF i > Len(rows) THEN acc.out
  ELSE LET eid == rows[i].eid
       IN  IF eid = NoEid \/ eid \in acc.seen
             THEN DedupFrom(rows, i + 1, acc)
             ELSE DedupFrom(rows, i + 1,
                            [seen |-> acc.seen \cup {eid}, out |-> Append(acc.out, rows[i])])

DedupKeepAll(rows) == SelectSeq(rows, LAMBDA e : e.eid # NoEid)

\* Dedup by EID, lines 100-110.
DedupByEid(rows) == DedupFrom(rows, 1, [seen |-> {}, out |-> <<>>])

(***************************************************************************)
(* build_email_html, lines 334-415.                                        *)
(***************************************************************************)
\* parse_date, lines 336-340: pd.to_datetime gives a Timestamp for a date it
\* can parse, raises for a string it cannot (caught: pd.NaT), and returns
\* None for None, the value of x.get("prism:coverDate", None) when the key is
\* absent.
parse_date(x) ==
  CASE x.coverDate.kind = "valid" -> [kind |-> "Timestamp", day |-> x.coverDate.day]
    [] x.coverDate.kind = "unparsable" -> [kind |-> "NaT", day |-> 0]
    [] OTHER -> [kind |-> "None", day |-> 0]

\* a < b on two keys, neither of them None: False whenever one is NaT.
Lt(a, b) == a.kind = "Timestamp" /\ b.kind = "Timestamp" /\ a.day < b.day

Reverse(s) == [i \in 1..Len(s) |-> s[Len(s) + 1 - i]]

RECURSIVE RunEnd(_, _, _)
\* count_run: the last index of the run that starts at 1 and goes on at i,
\* strictly descending (desc) or not descending.
RunEnd(s, i, desc) ==
  IF i > Len(s) THEN Len(s)
  ELSE IF Lt(parse_date(s[i]), parse_date(s[i - 1])) = desc
         THEN RunEnd(s, i + 1, desc)
         ELSE i - 1

RECURSIVE BinarySearch(_, _, _, _)
\* binarysort's search of the place of pivot in s[l..r-1]
BinarySearch(s, pivot, l, r) ==
  IF l >= r THEN l
  ELSE LET p == l + ((r - l) \div 2)
       IN  IF Lt(parse_date(pivot), parse_date(s[p]))
             THEN BinarySearch(s, pivot, l, p)
             ELSE BinarySearch(s, pivot, p + 1, r)

RECURSIVE BinarySort(_, _)
\* binarysort: s[1..start-1] is the sorted run, the rest is inserted one by one
BinarySort(s, start) ==
  IF start > Len(s) THEN s
  ELSE LET pivot == s[start]
           l == BinarySearch(s, pivot, 1, start)
           moved == SubSeq(s, 1, l - 1) \o <<pivot>> \o SubSeq(s, l, start - 1)
                      \o SubSeq(s, start + 1, Len(s))
       IN  BinarySort(moved, start + 1)

\* list.sort of fewer than 64 items on the keys parse_date gives: one run
\* found by count_run (reversed when descending), the rest inserted by
\* binarysort.
ListSort(s) ==
  IF Len(s) < 2 THEN s
  ELSE LET desc == Lt(parse_date(s[2]), parse_date(s[1]))
           n == RunEnd(s, 3, desc)
           run == IF desc THEN Reverse(SubSeq(s, 1, n)) \o SubSeq(s, n + 1, Len(s)) ELSE s
       IN  BinarySort(run, n + 1)

\* Comparing None with any key raises TypeError, and with two or more items
\* the sort compares every key at least once.
SortRaises(s) ==
  Len(s) >= 2 /\ \E i \in 1..Len(s) : parse_date(s[i]).kind = "None"

\* sorted(entries_30d, key=parse_date, reverse=True), line 341: the list is
\* reversed, sorted and reversed again.
SortedNewestFirst(entries) == Reverse(ListSort(Reverse(entries)))

\* entries_30d[:40], line 366
Top(entries) == SubSeq(entries, 1, Min(Len(entries), RenderCap))

\* The document of lines 343-415: the items, the two text blocks (left out
\* when their text is empty) and the number of new papers.
build_email_html(entries_30d, trend_summary, directions_text, new_since_last) ==
  [items |-> Top(SortedNewestFirst(entries_30d)),
   trend_html |-> trend_summary,
   directions_html |-> directions_text,
   new_block |-> Len(new_since_last)]

(***************************************************************************)
(* scopus_search_all as main calls it, against the Search API holding the  *)
(* result list h and failing the requests at the offsets in failing.       *)
(***************************************************************************)
\* The API's answer to the request of line 79 with start and count: the page
\* of h at that offset and the number of results, or an error status.
Respond(h, failing, start) ==
  IF start \in failing THEN ErrorResponse
  ELSE Response(StatusOK, Len(h), SubSeq(h, start + 1, Min(start + count, Len(h))))

RECURSIVE RunLoop(_, _, _)
\* the while loop of lines 71-98
RunLoop(l, h, failing) ==
  IF l.at # "request" THEN l
  ELSE RunLoop(PageBody(l, Respond(h, failing, l.start)), h, failing)

\* scopus_search_all(query), lines 66-110: the list returned, or raised
scopus_search_all(h, failing) ==
  LET l == RunLoop(LoopInit, h, failing)
  IN  IF l.at = "raised" THEN [raised |-> TRUE, out |-> <<>>]
      ELSE [raised |-> FALSE, out |-> DedupByEid(l.rows)]

(***************************************************************************)
(* load_state and save_state, lines 52-60, and the state file.             *)
(***************************************************************************)
\* no state.json
NoFile == [exists |-> FALSE, notified_eids |-> <<>>, last_report_kst |-> 0]

\* state.json as json.dump wrote it
FileOf(state) ==
  [exists |-> TRUE, notified_eids |-> state.notified_eids,
   last_report_kst |-> state.last_report_kst]

LoadStateIgnoringFile(f) == [notified_eids |-> <<>>, last_report_kst |-> 0]

\* load_state(), lines 52-56; the timestamp "" of the default is 0 here
load_state(f) ==
  IF ~f.exists THEN [notified_eids |-> <<>>, last_report_kst |-> 0]
  ELSE [notified_eids |-> f.notified_eids, last_report_kst |-> f.last_report_kst]

\* set(state.get("notified_eids", [])), line 430
SetOf(list) == {list[i] : i \in 1..Len(list)}

RECURSIVE sorted(_)
\* sorted(list(notified)), line 466
sorted(S) ==
  IF S = {} THEN <<>>
  ELSE LET m == CHOOSE x \in S : \A y \in S : x <= y
       IN  <<m>> \o sorted(S \ {m})

\* line 436
NewSinceLastUnfiltered(entries, notified) == entries

new_since_last_of(entries, notified) ==
  SelectSeq(entries, LAMBDA e : e.eid # NoEid /\ e.eid \notin notified)

\* lines 461-464: notified after the eids of this report are added
NotifiedOnlyThisReport(notified, entries) == EidsOf(entries)

NotifiedAfterReport(notified, entries) == notified \cup EidsOf(entries)

\* lines 466-467: the state that line 468 saves
StateToSave(notified, entries, now) ==
  [notified_eids |-> sorted(NotifiedAfterReport(notified, entries)),
   last_report_kst |-> now]

(***************************************************************************)
(* generate_trend_summary and generate_research_directions, lines 188-310. *)
(***************************************************************************)
\* What client.models.generate_content does: it raises, or gives a response
\* whose text is None or a string (a sequence of characters).
ServiceTexts == {<<>>, <<" ">>, <<"o", "k">>, <<" ", "o", "k", " ">>}

ServiceOutcomes ==
  {[kind |-> "raise", text |-> <<>>], [kind |-> "none", text |-> <<>>]}
    \cup {[kind |-> "text", text |-> t] : t \in ServiceTexts}

RECURSIVE LStrip(_)
LStrip(t) == IF t # <<>> /\ Head(t) = " " THEN LStrip(Tail(t)) ELSE t

\* str.strip()
Strip(t) == Reverse(LStrip(Reverse(LStrip(t))))

\* lines 212-248; has_key is bool(GEMINI_API_KEY)
TrendSummaryUncaught(entries, has_key, svc) ==
  IF ~has_key \/ entries = <<>> THEN [raised |-> FALSE, text |-> <<>>]
  ELSE IF svc.kind = "raise" THEN [raised |-> TRUE, text |-> <<>>]
  ELSE [raised |-> FALSE, text |-> Strip(IF svc.kind = "none" THEN <<>> ELSE svc.text)]

generate_trend_summary(entries, has_key, svc) ==
  IF ~has_key \/ entries = <<>> THEN [raised |-> FALSE, text |-> <<>>]
  ELSE IF svc.kind = "raise" THEN [raised |-> FALSE, text |-> <<>>]
  ELSE [raised |-> FALSE, text |-> Strip(IF svc.kind = "none" THEN <<>> ELSE svc.text)]

\* lines 250-310
generate_research_directions(entries, has_key, svc) ==
  IF ~has_key \/ entries = <<>> THEN [raised |-> FALSE, text |-> <<>>]
  ELSE IF svc.kind = "raise" THEN [raised |-> FALSE, text |-> <<>>]
  ELSE [raised |-> FALSE, text |-> Strip(IF svc.kind = "none" THEN <<>> ELSE svc.text)]

(***************************************************************************)
(* State.                                                                  *)
(*   loop      start, rows, total of a running scopus_search_all and where *)
(*             it is: "request", "dedup", "returned" or "raised"           *)
(*   out       the list scopus_search_all returned                          *)
(*   nreq      requests sent so far                                        *)
(*   last      the response of the latest request                          *)
(*   firstTotal  the total advertised by the first response                *)
(*   sawError  some request got a status other than 200                    *)
(*   crossDup  a page repeated an identifier of an earlier page            *)
(*   held      identifiers of the results the upstream holds for the query *)
(*   unserved  those of held no page has carried yet                       *)
(*   rEntries  the entries_30d given to build_email_html                   *)
(*   rSorted   entries_30d after the sort of line 341                      *)
(*   rItems    the records of the items list of lines 365-393              *)
(*   rAt       where build_email_html is: "sort", "items", "done", or      *)
(*             "raised" when the sort raised                               *)
(*   file      state.json                                                  *)
(*   clock     the time, which each start of a run advances                *)
(*   everSaved   every identifier some save_state has written              *)
(*   staleSave   some run saved after another run had saved since its load *)
(* and of each run p of main (a process):                                  *)
(*   pc        "idle", "fetch", "report", "save", "done" or "failed"       *)
(*   kst_now, notified, entries_30d, new_since_last, trend_summary,        *)
(*   directions_text   the variables of main                               *)
(*   hasKey    bool(GEMINI_API_KEY) in the environment of the process      *)
(*   mail      the message send_email delivered, if it did                 *)
(*   snapshot  the two CSV files the run wrote, if it did                  *)
(*   fileAtLoad  state.json as it was when the run loaded it               *)
(*   cause     the call that raised, of a failed run                       *)
(*   svcRaised   the summaries whose service call raised                   *)
(*   stale     another run has saved since this run loaded                 *)
(***************************************************************************)
VARIABLES loop, out, nreq, last, firstTotal, sawError, crossDup, held, unserved,
          rEntries, rSorted, rItems, rAt,
          file, clock, everSaved, staleSave,
          pc, kst_now, hasKey, notified, entries_30d, new_since_last,
          trend_summary, directions_text, mail, snapshot,
          fileAtLoad, cause, svcRaised, stale

fetchVars == <<loop, out, nreq, last, firstTotal, sawError, crossDup, held, unserved>>

renderVars == <<rEntries, rSorted, rItems, rAt>>

mainVars == <<file, clock, everSaved, staleSave, pc, kst_now, hasKey, notified,
              entries_30d, new_since_last, trend_summary, directions_text, mail,
              snapshot, fileAtLoad, cause, svcRaised, stale>>

vars == <<fetchVars, renderVars, mainVars>>

Procs == {"run1", "run2"}

NoMail == [sent |-> FALSE, html |-> build_email_html(<<>>, <<>>, <<>>, <<>>)]

NoSnapshot == [written |-> FALSE, all |-> <<>>, new |-> <<>>]

\* no run of main has started
MainIdle ==
  /\ file = NoFile
  /\ clock = 0
  /\ everSaved = {}
  /\ staleSave = FALSE
  /\ pc = [p \in Procs |-> "idle"]
  /\ kst_now = [p \in Procs |-> 0]
  /\ hasKey = [p \in Procs |-> FALSE]
  /\ notified = [p \in Procs |-> {}]
  /\ entries_30d = [p \in Procs |-> <<>>]
  /\ new_since_last = [p \in Procs |-> <<>>]
  /\ trend_summary = [p \in Procs |-> <<>>]
  /\ directions_text = [p \in Procs |-> <<>>]
  /\ mail = [p \in Procs |-> NoMail]
  /\ snapshot = [p \in Procs |-> NoSnapshot]
  /\ fileAtLoad = [p \in Procs |-> NoFile]
  /\ cause = [p \in Procs |-> "none"]
  /\ svcRaised = [p \in Procs |-> {}]
  /\ stale = [p \in Procs |-> FALSE]

\* scopus_search_all is not running
FetchIdle ==
  /\ loop = [LoopInit EXCEPT !.at = "idle"]
  /\ out = <<>>
  /\ nreq = 0
  /\ last = Response(StatusOK, 0, <<>>)
  /\ firstTotal = NoTotal
  /\ sawError = FALSE
  /\ crossDup = FALSE
  /\ held = {}
  /\ unserved = {}

\* build_email_html is not running
RenderIdle ==
  /\ rEntries = <<>>
  /\ rSorted = <<>>
  /\ rItems = <<>>
  /\ rAt = "idle"

InitCall ==
  /\ loop = LoopInit
  /\ out = <<>>
  /\ nreq = 0
  /\ last = Response(StatusOK, 0, <<>>)
  /\ firstTotal = NoTotal
  /\ sawError = FALSE
  /\ crossDup = FALSE

\* The request of line 79 answered by r, and the rest of the loop's turn.
Answered(r) ==
  /\ loop.at = "request"
  /\ loop' = PageBody(loop, r)
  /\ nreq' = nreq + 1
  /\ last' = r
  /\ firstTotal' = IF nreq = 0 /\ r.status = StatusOK THEN r.total ELSE firstTotal
  /\ sawError' = (sawError \/ r.status # StatusOK)
  /\ crossDup' = (crossDup \/ (r.status = StatusOK
                                 /\ EidsOf(r.entries) \cap EidsOf(loop.rows) # {}))
  /\ unserved' = IF r.status = StatusOK THEN unserved \ EidsOf(r.entries) ELSE unserved
  /\ UNCHANGED <<out, held, renderVars, mainVars>>

\* Any upstream: each request gets any response.
Request == \E r \in Responses : Answered(r)

\* The pages an upstream that holds h can serve next: while some result is
\* unserved, a page of distinct results of h that carries at least one of
\* them (it may repeat results of earlier pages); afterwards the empty page.
\* Every response advertises the number of results held.
ServedPages(h, u) ==
  IF u = {} THEN {Response(StatusOK, Cardinality(h), <<>>)}
  ELSE {Response(StatusOK, Cardinality(h), es) :
          es \in {p \in SeqsUpTo({Entry(e) : e \in h}, MaxPageLen) :
                    /\ p # <<>>
                    /\ NoDuplicateEid(p)
                    /\ EidsOf(p) \cap u # {}}}

\* An upstream that serves what it holds.
Serve == \E r \in ServedPages(held, unserved) : Answered(r)

\* Lines 100-110: the loop is left, the rows are deduplicated and returned.
Return ==
  /\ loop.at = "dedup"
  /\ out' = DedupByEid(loop.rows)
  /\ loop' = [loop EXCEPT !.at = "returned"]
  /\ UNCHANGED <<nreq, last, firstTotal, sawError, crossDup, held, unserved, renderVars, mainVars>>

InitFetch == InitCall /\ held = {} /\ unserved = {} /\ RenderIdle /\ MainIdle

NextFetch == Request \/ Return

\* scopus_search_all against any upstream
SpecFetch == InitFetch /\ [][NextFetch]_vars

InitServe == InitCall /\ held \in SUBSET Eids /\ unserved = held /\ RenderIdle /\ MainIdle

NextServe == Serve \/ Return

\* scopus_search_all against an upstream that serves what it holds
SpecServe == InitServe /\ [][NextServe]_vars

(***************************************************************************)
(* build_email_html on the record lists of RenderInputs.                   *)
(***************************************************************************)
CoverDates == {ValidDate(1), ValidDate(2), Unparsable, Missing}

\* the records of a list are told apart by their eid, their place in it
Numbered(ds) == [i \in 1..Len(ds) |-> [eid |-> i, coverDate |-> ds[i]]]

\* long lists: dates in ascending order, dates in no order, and dates in no
\* order with an unparsable one every fifth record
PatternDate(k, i) ==
  CASE k = 1 -> ValidDate(i)
    [] k = 2 -> ValidDate((i * 7) % 10)
    [] OTHER -> IF i % 5 = 0 THEN Unparsable ELSE ValidDate((i * 7) % 10)

LongLists ==
  {[i \in 1..n |-> [eid |-> i, coverDate |-> PatternDate(k, i)]] :
     n \in (RenderCap - 1)..(RenderCap + MaxOver), k \in 1..3}

RenderInputs ==
  {Numbered(ds) : ds \in SeqsUpTo(CoverDates, MaxRenderLen)} \cup LongLists

\* line 341
SortEntries ==
  /\ rAt = "sort"
  /\ IF SortRaises(rEntries)
       THEN rAt' = "raised" /\ UNCHANGED rSorted
       ELSE rAt' = "items" /\ rSorted' = SortedNewestFirst(rEntries)
  /\ UNCHANGED <<rEntries, rItems, fetchVars, mainVars>>

\* lines 365-393
BuildItems ==
  /\ rAt = "items"
  /\ rItems' = Top(rSorted)
  /\ rAt' = "done"
  /\ UNCHANGED <<rEntries, rSorted, fetchVars, mainVars>>

InitRender ==
  /\ FetchIdle
  /\ MainIdle
  /\ rEntries \in RenderInputs
  /\ rSorted = <<>>
  /\ rItems = <<>>
  /\ rAt = "sort"

NextRender == SortEntries \/ BuildItems

SpecRender == InitRender /\ [][NextRender]_vars

(***************************************************************************)
(* main, lines 421-469, run by the processes of Procs.                     *)
(***************************************************************************)
\* the result lists the Search API may hold when a run fetches
HeldLists == SeqsUpTo(Entries, MaxHeld)

\* and when the run may overlap another
OverlapHeldLists == SeqsUpTo(Entries, MaxOverlapHeld)

\* the offsets at which the Search API fails a request
FailingOffsets == {{}, {0}}

\* state.json when an exception leaves main: no line before 468 writes it
FileSavedOnAbort(p) == FileOf(StateToSave(notified[p], entries_30d[p], kst_now[p]))

FileOnAbort(p) == file

\* An exception leaves main: the process ends with a non-zero status.
Abort(p, why) ==
  /\ pc' = [pc EXCEPT ![p] = "failed"]
  /\ cause' = [cause EXCEPT ![p] = why]
  /\ file' = FileOnAbort(p)

\* Lines 422-430: the time is read, the state is loaded.
Load(p, key, runs) ==
  /\ pc[p] = "idle"
  /\ clock < runs
  /\ clock' = clock + 1
  /\ kst_now' = [kst_now EXCEPT ![p] = clock + 1]
  /\ hasKey' = [hasKey EXCEPT ![p] = key]
  /\ notified' = [notified EXCEPT ![p] = SetOf(load_state(file).notified_eids)]
  /\ fileAtLoad' = [fileAtLoad EXCEPT ![p] = file]
  /\ stale' = [stale EXCEPT ![p] = FALSE]
  /\ pc' = [pc EXCEPT ![p] = "fetch"]
  /\ UNCHANGED <<file, everSaved, staleSave, entries_30d, new_since_last, trend_summary,
                 directions_text, mail, snapshot, cause, svcRaised>>

\* Lines 432-436: the fetch, and the records new since the last report.
Fetch(p, lists) ==
  /\ pc[p] = "fetch"
  /\ \E h \in lists, failing \in FailingOffsets :
       LET r == scopus_search_all(h, failing)
       IN  IF r.raised
             THEN /\ Abort(p, "fetch")
                  /\ UNCHANGED <<entries_30d, new_since_last>>
             ELSE /\ entries_30d' = [entries_30d EXCEPT ![p] = r.out]
                  /\ new_since_last' =
                       [new_since_last EXCEPT ![p] = new_since_last_of(r.out, notified[p])]
                  /\ pc' = [pc EXCEPT ![p] = "report"]
                  /\ UNCHANGED <<file, cause>>
  /\ UNCHANGED <<clock, everSaved, staleSave, kst_now, hasKey, notified, trend_summary,
                 directions_text, mail, snapshot, fileAtLoad, svcRaised, stale>>

\* What the service does when run p calls it; the functions return before
\* the call when there is no key or no entry (lines 213-215 and 251-253).
ServiceCall(p) ==
  IF hasKey[p] /\ entries_30d[p] # <<>> THEN ServiceOutcomes
  ELSE {[kind |-> "uncalled", text |-> <<>>]}

\* Lines 438-458: the snapshots, the two summaries, the document, the e-mail.
Report(p) ==
  /\ pc[p] = "report"
  /\ \E svcT \in ServiceCall(p), svcD \in ServiceCall(p), delivered \in BOOLEAN :
       LET trend == generate_trend_summary(entries_30d[p], hasKey[p], svcT)
           directions == generate_research_directions(entries_30d[p], hasKey[p], svcD)
           called == hasKey[p] /\ entries_30d[p] # <<>>
       IN  /\ snapshot' = [snapshot EXCEPT ![p] =
                             [written |-> TRUE, all |-> entries_30d[p],
                              new |-> new_since_last[p]]]
           /\ IF trend.raised
                THEN /\ Abort(p, "summary")
                     /\ svcRaised' = [svcRaised EXCEPT ![p] = {"trend"}]
                     /\ UNCHANGED <<trend_summary, directions_text, mail>>
                ELSE /\ trend_summary' = [trend_summary EXCEPT ![p] = trend.text]
                     /\ svcRaised' = [svcRaised EXCEPT ![p] =
                          {x \in {"trend"} : called /\ svcT.kind = "raise"}
                            \cup {x \in {"directions"} : called /\ svcD.kind = "raise"}]
                     /\ IF directions.raised
                          THEN /\ Abort(p, "summary")
                               /\ UNCHANGED <<directions_text, mail>>
                          ELSE /\ directions_text' =
                                    [directions_text EXCEPT ![p] = directions.text]
                               /\ IF SortRaises(entries_30d[p])
                                    THEN Abort(p, "render") /\ UNCHANGED mail
                                    ELSE IF ~delivered
                                      THEN Abort(p, "send") /\ UNCHANGED mail
                                      ELSE /\ mail' = [mail EXCEPT ![p] =
                                                [sent |-> TRUE,
                                                 html |-> build_email_html(entries_30d[p],
                                                            trend.text, directions.text,
                                                            new_since_last[p])]]
                                           /\ pc' = [pc EXCEPT ![p] = "save"]
                                           /\ UNCHANGED <<file, cause>>
  /\ UNCHANGED <<clock, everSaved, staleSave, kst_now, hasKey, notified, entries_30d,
                 new_since_last, fileAtLoad, stale>>

\* Lines 460-469: the state is updated and saved.
Save(p) ==
  /\ pc[p] = "save"
  /\ file' = FileOf(StateToSave(notified[p], entries_30d[p], kst_now[p]))
  /\ everSaved' = everSaved \cup SetOf(file'.notified_eids)
  /\ staleSave' = (staleSave \/ stale[p])
  /\ stale' = [q \in Procs |->
                 IF q # p /\ pc[q] \in {"fetch", "report", "save"} THEN TRUE ELSE stale[q]]
  /\ pc' = [pc EXCEPT ![p] = "done"]
  /\ UNCHANGED <<clock, kst_now, hasKey, notified, entries_30d, new_since_last,
                 trend_summary, directions_text, mail, snapshot, fileAtLoad, cause,
                 svcRaised>>

\* The process ends.
Exit(p) ==
  /\ pc[p] \in {"done", "failed"}
  /\ pc' = [pc EXCEPT ![p] = "idle"]
  /\ kst_now' = [kst_now EXCEPT ![p] = 0]
  /\ hasKey' = [hasKey EXCEPT ![p] = FALSE]
  /\ notified' = [notified EXCEPT ![p] = {}]
  /\ entries_30d' = [entries_30d EXCEPT ![p] = <<>>]
  /\ new_since_last' = [new_since_last EXCEPT ![p] = <<>>]
  /\ trend_summary' = [trend_summary EXCEPT ![p] = <<>>]
  /\ directions_text' = [directions_text EXCEPT ![p] = <<>>]
  /\ mail' = [mail EXCEPT ![p] = NoMail]
  /\ snapshot' = [snapshot EXCEPT ![p] = NoSnapshot]
  /\ fileAtLoad' = [fileAtLoad EXCEPT ![p] = NoFile]
  /\ cause' = [cause EXCEPT ![p] = "none"]
  /\ svcRaised' = [svcRaised EXCEPT ![p] = {}]
  /\ stale' = [stale EXCEPT ![p] = FALSE]
  /\ UNCHANGED <<file, clock, everSaved, staleSave>>

\* the scheduler starts a run only when no other run is in progress
NoOtherRun(p) == \A q \in Procs \ {p} : pc[q] = "idle"

InitMain == FetchIdle /\ RenderIdle /\ MainIdle

Next ==
  \E p \in Procs :
    \/ (NoOtherRun(p) /\ \E key \in BOOLEAN : Load(p, key, MaxRuns))
         /\ UNCHANGED <<fetchVars, renderVars>>
    \/ Fetch(p, HeldLists) /\ UNCHANGED <<fetchVars, renderVars>>
    \/ Report(p) /\ UNCHANGED <<fetchVars, renderVars>>
    \/ Save(p) /\ UNCHANGED <<fetchVars, renderVars>>
    \/ Exit(p) /\ UNCHANGED <<fetchVars, renderVars>>

\* runs of main that do not overlap
Spec == InitMain /\ [][Next]_vars

NextOverlap ==
  \E p \in Procs :
    \/ Load(p, FALSE, MaxOverlapRuns) /\ UNCHANGED <<fetchVars, renderVars>>
    \/ Fetch(p, OverlapHeldLists) /\ UNCHANGED <<fetchVars, renderVars>>
    \/ Report(p) /\ UNCHANGED <<fetchVars, renderVars>>
    \/ Save(p) /\ UNCHANGED <<fetchVars, renderVars>>
    \/ Exit(p) /\ UNCHANGED <<fetchVars, renderVars>>

\* runs of main that the scheduler lets overlap, without a Gemini key
SpecOverlap == InitMain /\ [][NextOverlap]_vars

(***************************************************************************)
(* Claims about scopus_search_all.                                         *)
(***************************************************************************)
\* C3: whatever pages the upstream returns (overlapping and repeating pages
\* included), the list scopus_search_all returns holds no two records with
\* the same identifier.
C3_NoTwoRecordsShareAnIdentifier ==
  loop.at = "returned" => NoDuplicateEid(out)

\* A call over at least two pages, the later repeating a record of an earlier
\* one, has returned.
C3_Witness ==
  /\ loop.at = "returned"
  /\ crossDup
  /\ nreq >= 2
  /\ Len(out) < Len(loop.rows)

\* C5: when every page request succeeds, every record the upstream holds for
\* the query (their number is the advertised total) is in the returned list,
\* however many pages serve them and also when pages repeat records.
C5_ReturnsEveryRecordHeld ==
  loop.at = "returned" => held \subseteq EidsOf(out)

\* C6: the loop stops at the first page with zero entries, also below the
\* advertised total, and stops without another request once the rows number
\* the total; the total is that of the first response, and bounds the
\* number of requests.
C6_PaginationStops ==
  (nreq >= 1 /\ ~sawError) =>
    /\ loop.total = firstTotal
    /\ (loop.at = "request") <=> (last.entries # <<>> /\ Len(loop.rows) < firstTotal)
    /\ loop.at \in {"request", "dedup", "returned"}
    /\ nreq >= 2 => nreq <= firstTotal

\* The loop has stopped at an empty page, after a page with entries and
\* below the advertised total.
C6_Witness ==
  /\ loop.at = "dedup"
  /\ nreq >= 2
  /\ last.status = StatusOK
  /\ last.entries = <<>>
  /\ loop.rows # <<>>
  /\ Len(loop.rows) < loop.total

\* C7: a page request with a status other than 200 aborts the fetch there:
\* the call raises, the failed response is the last one (no retry, no further
\* page), and the rows of the earlier pages are not returned.
C7_ErrorStatusAborts ==
  sawError =>
    /\ loop.at = "raised"
    /\ last.status # StatusOK
    /\ out = <<>>

\* A request failed after earlier pages had brought rows.
C7_Witness ==
  /\ sawError
  /\ nreq >= 2
  /\ loop.rows # <<>>
  /\ loop.at = "raised"

(***************************************************************************)
(* Claims about main.                                                      *)
(***************************************************************************)
IdsIn(f) == SetOf(f.notified_eids)

Running(p) == pc[p] \in {"fetch", "report", "save"}

\* C1: state.json is written only after send_email has returned: while a run
\* is under way the file is as the run loaded it, a run that scopus_search_all
\* or send_email (or any other call) made fail ends with the file as it was
\* at its start, and a run that saved had delivered its e-mail.
C1_StateWrittenOnlyAfterSend ==
  \A p \in Procs :
    /\ (Running(p) \/ pc[p] = "failed") => file = fileAtLoad[p]
    /\ pc[p] = "done" => mail[p].sent

\* A run that loaded a state file and found new records failed in send_email.
C1_Witness ==
  \E p \in Procs :
    /\ pc[p] = "failed"
    /\ cause[p] = "send"
    /\ fileAtLoad[p].exists
    /\ new_since_last[p] # <<>>

\* C2: over runs that do not overlap the persisted identifier set never
\* shrinks, and the save of a successful run makes it the set persisted
\* before united with the identifiers of the run's fetched records.
C2_PersistedSetOnlyGrows ==
  [][/\ IdsIn(file) \subseteq IdsIn(file')
     /\ \A p \in Procs :
          (pc[p] = "save" /\ pc'[p] = "done")
            => IdsIn(file') = IdsIn(file) \cup EidsOf(entries_30d[p])]_vars

\* A run that loaded identifiers and fetched some of them and a new one has
\* saved.
C2_Witness ==
  \E p \in Procs :
    /\ pc[p] = "done"
    /\ IdsIn(fileAtLoad[p]) # {}
    /\ IdsIn(fileAtLoad[p]) \cap EidsOf(entries_30d[p]) # {}
    /\ EidsOf(entries_30d[p]) \ IdsIn(fileAtLoad[p]) # {}
    /\ IdsIn(file) = IdsIn(fileAtLoad[p]) \cup EidsOf(entries_30d[p])

RecordsOf(es) == {es[i] : i \in 1..Len(es)}

\* C4: the "new since last" list of a run is exactly the fetched records
\* whose identifier is not in the state file the run loaded.
C4_NewSinceLastIsFetchedNotNotified ==
  \A p \in Procs :
    pc[p] \in {"report", "save", "done"} =>
      /\ RecordsOf(new_since_last[p]) =
           {e \in RecordsOf(entries_30d[p]) : e.eid \notin IdsIn(fileAtLoad[p])}
      /\ NoDuplicateEid(new_since_last[p])

\* State {A, B} and a fetch of A, B and C give one new record.
C4_Witness ==
  \E p \in Procs :
    /\ pc[p] = "report"
    /\ Cardinality(IdsIn(fileAtLoad[p])) = 2
    /\ IdsIn(fileAtLoad[p]) \subseteq EidsOf(entries_30d[p])
    /\ Len(entries_30d[p]) = 3
    /\ Len(new_since_last[p]) = 1

Summarized(p) ==
  pc[p] \in {"save", "done"} \/ (pc[p] = "failed" /\ cause[p] \in {"render", "send"})

\* C8: the two summaries are the empty string when there is no record, no
\* key, or the service call raised, and no run fails in a summary: it goes
\* on to render and send.
C8_SummariesNeverAbort ==
  \A p \in Procs :
    /\ cause[p] # "summary"
    /\ Summarized(p) =>
         /\ (entries_30d[p] = <<>> \/ ~hasKey[p] \/ "trend" \in svcRaised[p])
              => trend_summary[p] = <<>>
         /\ (entries_30d[p] = <<>> \/ ~hasKey[p] \/ "directions" \in svcRaised[p])
              => directions_text[p] = <<>>

\* Both service calls of a run raised; the run sent its e-mail without the
\* two sections and saved the state.
C8_Witness ==
  \E p \in Procs :
    /\ pc[p] = "done"
    /\ svcRaised[p] = {"trend", "directions"}
    /\ mail[p].sent
    /\ mail[p].html.trend_html = <<>>
    /\ mail[p].html.items # <<>>
    /\ file.last_report_kst = kst_now[p]

\* C10: nothing locks state.json: a run that saves after another run saved
\* since its load overwrites that save, and identifiers can be lost; the file
\* lacks an identifier that was saved only after such a save.
C10_IdentifiersLostOnlyByOverlap ==
  (everSaved \subseteq IdsIn(file)) \/ staleSave

\* Two runs loaded before either saved, and the file lacks an identifier the
\* earlier save recorded.
C10_Witness ==
  /\ staleSave
  /\ ~(everSaved \subseteq IdsIn(file))
  /\ \E p, q \in Procs : p # q /\ pc[p] = "done" /\ pc[q] = "done"

(***************************************************************************)
(* Claims about build_email_html.                                          *)
(***************************************************************************)
HasValidDate(e) == e.coverDate.kind = "valid"

\* es is in cover date order, newest first, the records without a valid
\* date after all those with one
NewestFirstInvalidLast(es) ==
  \A i, j \in 1..Len(es) :
    i < j =>
      /\ (HasValidDate(es[i]) /\ HasValidDate(es[j]))
           => es[i].coverDate.day >= es[j].coverDate.day
      /\ ~(~HasValidDate(es[i]) /\ HasValidDate(es[j]))

IsPermutation(a, b) ==
  /\ Len(a) = Len(b)
  /\ \A x \in {a[i] : i \in 1..Len(a)} :
       Cardinality({i \in 1..Len(a) : a[i] = x}) = Cardinality({i \in 1..Len(b) : b[i] = x})

\* C9: build_email_html never raises on a missing or unparsable cover date,
\* and renders at most 40 items: the first 40 of the records in cover date
\* order, newest first, those without a valid date after all the others.
C9_RendersNewestFortyInvalidLast ==
  /\ rAt # "raised"
  /\ rAt = "done" =>
       /\ Len(rItems) <= RenderCap
       /\ \E n \in 0..Len(rSorted) : rItems = SubSeq(rSorted, 1, n)
       /\ Len(rItems) = Min(Len(rEntries), RenderCap)
       /\ IsPermutation(rSorted, rEntries)
       /\ NewestFirstInvalidLast(rSorted)

====
